---- MODULE Spec2Model ----
(***************************************************************************)
(* Workout metrics calculator (src/main.go): the Training base record, its *)
(* Running, Walking and Swimming variants, the InfoMessage summary and     *)
(* ReadData, with Go's method promotion through struct embedding.          *)
(*                                                                         *)
(* Numbers.  A Go int is 64 bits wide and wraps on overflow; it is kept as *)
(* m * 2^e with a small m, which makes the wrap of a product exact.  A     *)
(* float64 is kept as an exact signed fraction n/d of arbitrary-size       *)
(* naturals, or as +Inf, -Inf or NaN, which is what a division by zero     *)
(* produces in Go; float64 rounding of the last bit is not modelled.       *)
(***************************************************************************)
EXTENDS Integers, Sequences, FiniteSets, TLC

(***************************************************************************)
(* Naturals of arbitrary size: little-endian digits in base 10^4, without  *)
(* high zeros, so that zero is the empty sequence.                         *)
(***************************************************************************)
B == 100 * 100

RECURSIVE BFromInt(_)
BFromInt(n) == IF n = 0 THEN << >> ELSE <<n % B>> \o BFromInt(n \div B)

RECURSIVE BStrip(_)
BStrip(a) ==
    IF a = << >> THEN << >>
    ELSE IF a[Len(a)] = 0 THEN BStrip(SubSeq(a, 1, Len(a) - 1)) ELSE a

BShift(a) == IF a = << >> THEN << >> ELSE <<0>> \o a

RECURSIVE BAddC(_, _, _)
BAddC(a, b, c) ==
    IF a = << >> /\ b = << >> THEN (IF c = 0 THEN << >> ELSE <<c>>)
    ELSE LET x == IF a = << >> THEN 0 ELSE Head(a)
             y == IF b = << >> THEN 0 ELSE Head(b)
             t == x + y + c
         IN  <<t % B>> \o BAddC(IF a = << >> THEN a ELSE Tail(a),
                                IF b = << >> THEN b ELSE Tail(b), t \div B)

BAdd(a, b) == BAddC(a, b, 0)

RECURSIVE BMulSmallC(_, _, _)
BMulSmallC(a, k, c) ==
    IF a = << >> THEN BFromInt(c)
    ELSE LET t == Head(a) * k + c
         IN  <<t % B>> \o BMulSmallC(Tail(a), k, t \div B)

\* a * k for a digit k in 0..B-1
BMulSmall(a, k) == IF k = 0 THEN << >> ELSE BMulSmallC(a, k, 0)

RECURSIVE BMul(_, _)
BMul(a, b) ==
    IF a = << >> \/ b = << >> THEN << >>
    ELSE BAdd(BMulSmall(b, Head(a)), BShift(BMul(Tail(a), b)))

RECURSIVE BCmpFrom(_, _, _)
BCmpFrom(a, b, i) ==
    IF i = 0 THEN 0
    ELSE IF a[i] < b[i] THEN -1
    ELSE IF a[i] > b[i] THEN 1
    ELSE BCmpFrom(a, b, i - 1)

\* -1, 0 or 1 as a < b, a = b, a > b
BCmp(a, b) ==
    IF Len(a) < Len(b) THEN -1
    ELSE IF Len(a) > Len(b) THEN 1
    ELSE BCmpFrom(a, b, Len(a))

RECURSIVE BSubC(_, _, _)
BSubC(a, b, c) ==
    IF a = << >> THEN << >>
    ELSE LET y == IF b = << >> THEN 0 ELSE Head(b)
             t == Head(a) - y - c
         IN  <<IF t < 0 THEN t + B ELSE t>>
                 \o BSubC(Tail(a), IF b = << >> THEN b ELSE Tail(b),
                          IF t < 0 THEN 1 ELSE 0)

\* a - b for a >= b
BSub(a, b) == BStrip(BSubC(a, b, 0))

\* the largest digit q in lo..hi with b * q <= r (b * lo <= r is given)
RECURSIVE BQuotDigit(_, _, _, _)
BQuotDigit(r, b, lo, hi) ==
    IF lo = hi THEN lo
    ELSE LET mid == (lo + hi + 1) \div 2
         IN  IF BCmp(BMulSmall(b, mid), r) <= 0
             THEN BQuotDigit(r, b, mid, hi)
             ELSE BQuotDigit(r, b, lo, mid - 1)

\* long division of a by b # 0, from the high digit down: [q, r]
RECURSIVE BDivMod(_, _)
BDivMod(a, b) ==
    IF a = << >> THEN [q |-> << >>, r |-> << >>]
    ELSE LET up == BDivMod(Tail(a), b)
             r0 == BStrip(<<Head(a)>> \o up.r)
             qd == BQuotDigit(r0, b, 0, B - 1)
         IN  [q |-> BStrip(<<qd>> \o up.q), r |-> BSub(r0, BMulSmall(b, qd))]

RECURSIVE BPow2(_)
BPow2(e) ==
    IF e = 0 THEN <<1>>
    ELSE LET h == BPow2(e \div 2)
         IN  IF e % 2 = 0 THEN BMul(h, h) ELSE BMulSmall(BMul(h, h), 2)

\* a \div k for a digit k in 1..B-1, from the high digit down: [q, r]
RECURSIVE BDivSmallR(_, _)
BDivSmallR(a, k) ==
    IF a = << >> THEN [q |-> << >>, r |-> 0]
    ELSE LET up == BDivSmallR(Tail(a), k)
             t == up.r * B + Head(a)
         IN  [q |-> <<t \div k>> \o up.q, r |-> t % k]

BDivSmall(a, k) == BStrip(BDivSmallR(a, k).q)

BIsEven(a) == a = << >> \/ Head(a) % 2 = 0

(***************************************************************************)
(* float64 (src/main.go:218, 220, 257-259): a signed fraction n/d of       *)
(* naturals (k = "fin", zero has n = << >> and s = 1), an infinity         *)
(* (k = "inf") or not-a-number (k = "nan").                                *)
(***************************************************************************)
\* n/d with the powers of ten common to n and d cancelled
RECURSIVE Cancel(_, _)
Cancel(n, d) ==
    IF n = << >> THEN [n |-> << >>, d |-> <<1>>]
    ELSE IF Head(n) = 0 /\ Head(d) = 0 THEN Cancel(Tail(n), Tail(d))
    ELSE IF Head(n) % 10 = 0 /\ Head(d) % 10 = 0
         THEN Cancel(BDivSmall(n, 10), BDivSmall(d, 10))
    ELSE [n |-> n, d |-> d]

Fin(s, n, d) ==
    LET c == Cancel(n, d)
    IN  [k |-> "fin", s |-> IF n = << >> THEN 1 ELSE s, n |-> c.n, d |-> c.d]
Inf(s) == [k |-> "inf", s |-> s, n |-> << >>, d |-> << >>]
NaN == [k |-> "nan", s |-> 1, n |-> << >>, d |-> << >>]

\* the decimal literal n/d, n >= 0 and d > 0
Dec(n, d) == Fin(1, BFromInt(n), BFromInt(d))
Zero == Dec(0, 1)

IsFinite(x) == x.k = "fin"
IsZero(x) == x.k = "fin" /\ x.n = << >>
IsNegative(x) == x.k # "nan" /\ x.s = -1 /\ ~IsZero(x)

\* Go's == on float64: NaN equals nothing
FEq(x, y) ==
    CASE x.k = "nan" \/ y.k = "nan" -> FALSE
      [] x.k = "inf" \/ y.k = "inf" -> x.k = y.k /\ x.s = y.s
      [] OTHER -> x.s = y.s /\ BMul(x.n, y.d) = BMul(y.n, x.d)

FMul(x, y) ==
    CASE x.k = "nan" \/ y.k = "nan" -> NaN
      [] x.k = "inf" \/ y.k = "inf" ->
            IF IsZero(x) \/ IsZero(y) THEN NaN ELSE Inf(x.s * y.s)
      [] OTHER -> Fin(x.s * y.s, BMul(x.n, y.n), BMul(x.d, y.d))

\* x / y; a finite x over zero is an infinity, 0/0 is NaN, nothing panics
FDiv(x, y) ==
    CASE x.k = "nan" \/ y.k = "nan" -> NaN
      [] x.k = "inf" -> IF y.k = "inf" THEN NaN ELSE Inf(x.s * y.s)
      [] y.k = "inf" -> Zero
      [] IsZero(y) -> IF IsZero(x) THEN NaN ELSE Inf(x.s * y.s)
      [] OTHER -> Fin(x.s * y.s, BMul(x.n, y.d), BMul(x.d, y.n))

FAdd(x, y) ==
    CASE x.k = "nan" \/ y.k = "nan" -> NaN
      [] x.k = "inf" -> IF y.k = "inf" /\ y.s # x.s THEN NaN ELSE x
      [] y.k = "inf" -> y
      [] OTHER ->
            LET a == BMul(x.n, y.d)
                b == BMul(y.n, x.d)
                d == BMul(x.d, y.d)
            IN  IF x.s = y.s THEN Fin(x.s, BAdd(a, b), d)
                ELSE IF BCmp(a, b) >= 0 THEN Fin(x.s, BSub(a, b), d)
                ELSE Fin(y.s, BSub(b, a), d)

(***************************************************************************)
(* int (src/main.go:217, 316, 317): 64 bits, two's complement.  A value is *)
(* m * 2^e with |m| < 2^15; a value below 2^15 has e = 0.                  *)
(***************************************************************************)
IntBits == 64

RECURSIVE Pow2(_)
Pow2(e) == IF e = 0 THEN 1 ELSE 2 * Pow2(e - 1)

Abs(i) == IF i < 0 THEN -i ELSE i

GoInt(m, e) == [m |-> m, e |-> IF m = 0 THEN 0 ELSE e]

\* a * b in int arithmetic: the product modulo 2^IntBits, read as signed.
\* With r = IntBits - e bits of the product of the m's kept, a product
\* below 2^30 changes only when r <= 30.
MulInt(a, b) ==
    LET p == a.m * b.m
        e == a.e + b.e
        r == IntBits - e
    IN  IF p = 0 \/ r <= 0 THEN GoInt(0, 0)
        ELSE IF r > 30 THEN GoInt(p, e)
        ELSE LET low == p % Pow2(r)
             IN  GoInt(IF low >= Pow2(r - 1) THEN low - Pow2(r) ELSE low, e)

\* float64(i): exact, since |m| < 2^53
IntToFloat(i) ==
    Fin(IF i.m < 0 THEN -1 ELSE 1, BMul(BFromInt(Abs(i.m)), BPow2(i.e)), <<1>>)

(***************************************************************************)
(* time.Duration (src/main.go:219), counted in minutes.  Hours() adds the  *)
(* whole hours to the remainder over an hour; Minutes() likewise.          *)
(***************************************************************************)
Hours(d) == FAdd(Dec(d \div 60, 1), FDiv(Dec(d % 60, 1), Dec(60, 1)))
Minutes(d) == FAdd(Dec(d, 1), FDiv(Dec(0, 1), Dec(60, 1)))

(***************************************************************************)
(* fmt's %.<p>f verb (src/main.go:264): the value rounded to p decimals,   *)
(* ties to even, as the count u of units of 10^-p; +Inf, -Inf and NaN      *)
(* print as such.                                                          *)
(***************************************************************************)
Fixed(x, p) ==
    IF x.k # "fin" THEN [k |-> x.k, s |-> x.s, u |-> << >>]
    ELSE LET scaled == BMul(x.n, BFromInt(10 ^ p))
             qr == BDivMod(scaled, x.d)
             twice == BCmp(BMulSmall(qr.r, 2), x.d)
             up == twice > 0 \/ (twice = 0 /\ ~BIsEven(qr.q))
         IN  [k |-> "fin", s |-> x.s,
              u |-> IF up THEN BAdd(qr.q, <<1>>) ELSE qr.q]

(***************************************************************************)
(* The constants of the calculations.                                      *)
(***************************************************************************)
MInKm == Dec(1000, 1)
MinsInHour == Dec(60, 1)
LenStep == Dec(65, 100)
CmInM == Dec(100, 1)
CaloriesMeanSpeedMultiplier == Dec(18, 1)
CaloriesMeanSpeedShift == Dec(179, 100)
CaloriesWeightMultiplier == Dec(35, 1000)
CaloriesSpeedHeightMultiplier == Dec(29, 1000)
KmHInMsec == Dec(278, 1000)
SwimmingLenStep == Dec(138, 100)
SwimmingCaloriesMeanSpeedShift == Dec(11, 10)
SwimmingCaloriesWeightMultiplier == Dec(2, 1)

(***************************************************************************)
(* Training and its methods.  A session c is a record                      *)
(*   [kind, Training |-> [TrainingType, Action, LenStep, Duration,         *)
(*    Weight], Height, LengthPool, CountPool]                              *)
(* where kind names the struct type and Training is the embedded struct;   *)
(* a type without a field carries its zero value.                          *)
(***************************************************************************)
Training_distance(t) ==
    FDiv(FMul(IntToFloat(t.Action), t.LenStep), MInKm)

\* meanSpeed without its test for a zero duration
Training_meanSpeedUnguarded(t) ==
    FDiv(Training_distance(t), Hours(t.Duration))

Training_meanSpeed(t) ==
    LET durationInHours == Hours(t.Duration)
    IN  IF FEq(durationInHours, Zero) THEN Zero
        ELSE FDiv(Training_distance(t), durationInHours)

Training_Calories(t) == Zero

Training_TrainingInfo(t) ==
    [TrainingType |-> t.TrainingType,
     Duration     |-> t.Duration,
     Distance     |-> Training_distance(t),
     Speed        |-> Training_meanSpeed(t),
     Calories     |-> Training_Calories(t)]

InfoMessage_String(i) ==
    [TrainingType |-> i.TrainingType,
     Duration     |-> Fixed(Minutes(i.Duration), 1),
     Distance     |-> Fixed(i.Distance, 2),
     Speed        |-> Fixed(i.Speed, 2),
     Calories     |-> Fixed(i.Calories, 2)]

(***************************************************************************)
(* Running.  r.meanSpeed() is Training's method, promoted.                 *)
(***************************************************************************)
\* Calories of Running without the conversion of the hours to minutes
Running_CaloriesPerHour(r) ==
    FMul(FDiv(FMul(FAdd(FMul(CaloriesMeanSpeedMultiplier,
                             Training_meanSpeed(r.Training)),
                        CaloriesMeanSpeedShift),
                   r.Training.Weight),
              MInKm),
         Hours(r.Training.Duration))

Running_Calories(r) ==
    FMul(FMul(FDiv(FMul(FAdd(FMul(CaloriesMeanSpeedMultiplier,
                                  Training_meanSpeed(r.Training)),
                             CaloriesMeanSpeedShift),
                        r.Training.Weight),
                   MInKm),
              Hours(r.Training.Duration)),
         MinsInHour)

Running_TrainingInfo(r) == Training_TrainingInfo(r.Training)

(***************************************************************************)
(* Walking.                                                                *)
(***************************************************************************)
\* Calories of Walking without its test for a zero height
Walking_CaloriesUnguarded(w) ==
    LET heightInMeters == FDiv(w.Height, CmInM)
        speedInMSec == FMul(Training_meanSpeed(w.Training), KmHInMsec)
    IN  FMul(FMul(FAdd(FMul(CaloriesWeightMultiplier, w.Training.Weight),
                       FMul(FMul(FDiv(FMul(speedInMSec, speedInMSec),
                                      heightInMeters),
                                 CaloriesSpeedHeightMultiplier),
                            w.Training.Weight)),
                  Hours(w.Training.Duration)),
             MinsInHour)

Walking_Calories(w) ==
    LET heightInMeters == FDiv(w.Height, CmInM)
    IN  IF FEq(heightInMeters, Zero) THEN Zero
        ELSE LET speedInMSec == FMul(Training_meanSpeed(w.Training), KmHInMsec)
             IN  FMul(FMul(FAdd(FMul(CaloriesWeightMultiplier, w.Training.Weight),
                                FMul(FMul(FDiv(FMul(speedInMSec, speedInMSec),
                                               heightInMeters),
                                          CaloriesSpeedHeightMultiplier),
                                     w.Training.Weight)),
                           Hours(w.Training.Duration)),
                      MinsInHour)

Walking_TrainingInfo(w) == Training_TrainingInfo(w.Training)

(***************************************************************************)
(* Swimming.                                                               *)
(***************************************************************************)
Swimming_meanSpeed(s) ==
    LET durationInHours == Hours(s.Training.Duration)
    IN  IF FEq(durationInHours, Zero) THEN Zero
        ELSE FDiv(FDiv(IntToFloat(MulInt(s.LengthPool, s.CountPool)), MInKm),
                  durationInHours)

\* Calories of Swimming with the mean speed promoted from Training
Swimming_CaloriesByStrokes(s) ==
    FMul(FMul(FMul(FAdd(Training_meanSpeed(s.Training),
                        SwimmingCaloriesMeanSpeedShift),
                   SwimmingCaloriesWeightMultiplier),
              s.Training.Weight),
         Hours(s.Training.Duration))

Swimming_Calories(s) ==
    FMul(FMul(FMul(FAdd(Swimming_meanSpeed(s), SwimmingCaloriesMeanSpeedShift),
                   SwimmingCaloriesWeightMultiplier),
              s.Training.Weight),
         Hours(s.Training.Duration))

Swimming_TrainingInfo(s) ==
    [TrainingType |-> s.Training.TrainingType,
     Duration     |-> s.Training.Duration,
     Distance     |-> FDiv(IntToFloat(MulInt(s.LengthPool, s.CountPool)), MInKm),
     Speed        |-> Swimming_meanSpeed(s),
     Calories     |-> Swimming_Calories(s)]

(***************************************************************************)
(* Method selection on a session c of one of the three struct types: the   *)
(* type's own method where it declares one, else the method promoted from  *)
(* the embedded Training.  Calories and TrainingInfo are the methods of    *)
(* the CaloriesCalculator interface.                                       *)
(***************************************************************************)
Calories(c) ==
    CASE c.kind = "Running"  -> Running_Calories(c)
      [] c.kind = "Walking"  -> Walking_Calories(c)
      [] c.kind = "Swimming" -> Swimming_Calories(c)

TrainingInfo(c) ==
    CASE c.kind = "Running"  -> Running_TrainingInfo(c)
      [] c.kind = "Walking"  -> Walking_TrainingInfo(c)
      [] c.kind = "Swimming" -> Swimming_TrainingInfo(c)

distance(c) == Training_distance(c.Training)

meanSpeed(c) ==
    IF c.kind = "Swimming" THEN Swimming_meanSpeed(c)
    ELSE Training_meanSpeed(c.Training)

ReadData(training) ==
    LET info == TrainingInfo(training)
    IN  InfoMessage_String([info EXCEPT !.Calories = Calories(training)])

\* ReadData as first written (lines 146-149): the summary as TrainingInfo built
\* it.  Running and Walking then declared no TrainingInfo and had Training's
\* by promotion, which is what their TrainingInfo methods now pass to.
ReadDataFirst(training) == InfoMessage_String(TrainingInfo(training))

(***************************************************************************)
(* The three sessions main builds.  The labels are the source's Cyrillic   *)
(* ones in Latin letters; no operation looks into a label.                 *)
(***************************************************************************)
swimming ==
    [kind |-> "Swimming",
     Training |-> [TrainingType |-> "Plavanie", Action |-> GoInt(2000, 0),
                   LenStep |-> SwimmingLenStep, Duration |-> 90,
                   Weight |-> Dec(85, 1)],
     Height |-> Zero, LengthPool |-> GoInt(50, 0), CountPool |-> GoInt(40, 0)]

walking ==
    [kind |-> "Walking",
     Training |-> [TrainingType |-> "Khodba", Action |-> GoInt(20000, 0),
                   LenStep |-> LenStep, Duration |-> 3 * 60 + 45,
                   Weight |-> Dec(85, 1)],
     Height |-> Dec(185, 1), LengthPool |-> GoInt(0, 0), CountPool |-> GoInt(0, 0)]

running ==
    [kind |-> "Running",
     Training |-> [TrainingType |-> "Beg", Action |-> GoInt(5000, 0),
                   LenStep |-> LenStep, Duration |-> 30,
                   Weight |-> Dec(85, 1)],
     Height |-> Zero, LengthPool |-> GoInt(0, 0), CountPool |-> GoInt(0, 0)]

(***************************************************************************)
(* The methods each call invokes, by the same selection.                   *)
(***************************************************************************)
CallsTraining_meanSpeed(t) ==
    {"Training.meanSpeed"}
        \cup (IF FEq(Hours(t.Duration), Zero) THEN {} ELSE {"Training.distance"})

CallsTraining_TrainingInfo(t) ==
    {"Training.TrainingInfo", "Training.distance", "Training.Calories"}
        \cup CallsTraining_meanSpeed(t)

CallsCalories(c) ==
    CASE c.kind = "Running" ->
            {"Running.Calories"} \cup CallsTraining_meanSpeed(c.Training)
      [] c.kind = "Walking" ->
            {"Walking.Calories"}
                \cup (IF FEq(FDiv(c.Height, CmInM), Zero) THEN {}
                      ELSE CallsTraining_meanSpeed(c.Training))
      [] c.kind = "Swimming" -> {"Swimming.Calories", "Swimming.meanSpeed"}

CallsTrainingInfo(c) ==
    CASE c.kind = "Running" ->
            {"Running.TrainingInfo"} \cup CallsTraining_TrainingInfo(c.Training)
      [] c.kind = "Walking" ->
            {"Walking.TrainingInfo"} \cup CallsTraining_TrainingInfo(c.Training)
      [] c.kind = "Swimming" ->
            {"Swimming.TrainingInfo", "Swimming.meanSpeed"} \cup CallsCalories(c)

CallsReadData(c) ==
    CallsTrainingInfo(c) \cup CallsCalories(c) \cup {"InfoMessage.String"}

(***************************************************************************)
(* The sessions of the model: every combination of the field values below, *)
(* and the three of main.  The pool values 2^32 and 2^31 are non-negative  *)
(* ints whose product does not fit an int.                                 *)
(***************************************************************************)
MaxAction == 1
MaxDuration == 1

Actions == {GoInt(1000 * i, 0) : i \in 0..MaxAction}
LenSteps == {LenStep, SwimmingLenStep}
Durations == {45 * i : i \in 0..MaxDuration}
Weights == {Zero, Dec(85, 1)}
Heights == {Zero, Dec(185, 1)}
LengthPools == {GoInt(0, 0), GoInt(50, 0), GoInt(1, 32)}
CountPools == {GoInt(40, 0), GoInt(1, 31)}

Trainings(label) ==
    [TrainingType : {label}, Action : Actions, LenStep : LenSteps,
     Duration : Durations, Weight : Weights]

Sessions ==
    [kind : {"Running"}, Training : Trainings("Beg"), Height : {Zero},
     LengthPool : {GoInt(0, 0)}, CountPool : {GoInt(0, 0)}]
    \cup
    [kind : {"Walking"}, Training : Trainings("Khodba"), Height : Heights,
     LengthPool : {GoInt(0, 0)}, CountPool : {GoInt(0, 0)}]
    \cup
    [kind : {"Swimming"}, Training : Trainings("Plavanie"), Height : {Zero},
     LengthPool : LengthPools, CountPool : CountPools]
    \cup {swimming, walking, running}

(***************************************************************************)
(* State.                                                                  *)
(*   built    the session as it was constructed                            *)
(*   session  the session the caller holds                                 *)
(*   infos    what the calls of TrainingInfo on it returned, in order,     *)
(*            each with the methods the call invoked                       *)
(*   texts    what the calls of ReadData on it returned, likewise          *)
(*   other    the last other call on it and its result                     *)
(*   console  the texts main has printed                                   *)
(***************************************************************************)
VARIABLES built, session, infos, texts, other, console

vars == <<built, session, infos, texts, other, console>>

\* the number of calls of TrainingInfo, and of ReadData, the model follows
MaxCalls == 2

Init ==
    /\ built \in Sessions
    /\ session = built
    /\ infos = << >>
    /\ texts = << >>
    /\ other = {}
    /\ console = << >>

\* a callee that worked on the caller's session and reset its counter
AfterCallReset(c) == [c EXCEPT !.Training.Action = GoInt(0, 0)]

\* Every method has a value receiver and ReadData takes the interface value:
\* the callee works on a copy and the caller's session is what it was.
AfterCall(c) == c

\* A call on the session happens in a process that has not finished.
Live == console = << >>

CallTrainingInfo ==
    /\ Live
    /\ Len(infos) < MaxCalls
    /\ infos' = Append(infos, [msg |-> TrainingInfo(session),
                               calls |-> CallsTrainingInfo(session)])
    /\ session' = AfterCall(session)
    /\ UNCHANGED <<built, texts, other, console>>

CallReadData ==
    /\ Live
    /\ Len(texts) < MaxCalls
    /\ texts' = Append(texts, [out |-> ReadData(session),
                               calls |-> CallsReadData(session)])
    /\ session' = AfterCall(session)
    /\ UNCHANGED <<built, infos, other, console>>

CallReadDataFirst ==
    /\ Live
    /\ other' = {[op |-> "ReadDataFirst", val |-> ReadDataFirst(session)]}
    /\ session' = AfterCall(session)
    /\ UNCHANGED <<built, infos, texts, console>>

CallDistance ==
    /\ Live
    /\ other' = {[op |-> "distance", val |-> distance(session)]}
    /\ session' = AfterCall(session)
    /\ UNCHANGED <<built, infos, texts, console>>

CallMeanSpeed ==
    /\ Live
    /\ other' = {[op |-> "meanSpeed", val |-> meanSpeed(session)]}
    /\ session' = AfterCall(session)
    /\ UNCHANGED <<built, infos, texts, console>>

CallCalories ==
    /\ Live
    /\ other' = {[op |-> "Calories", val |-> Calories(session)]}
    /\ session' = AfterCall(session)
    /\ UNCHANGED <<built, infos, texts, console>>

\* A second Swimming session, with the same pool, duration and weight and
\* another repetition count or step length, is built and summarised.
TwinTrainingInfo ==
    /\ Live
    /\ session.kind = "Swimming"
    /\ \E a \in Actions, l \in LenSteps :
          /\ <<a, l>> # <<session.Training.Action, session.Training.LenStep>>
          /\ LET twin == [session EXCEPT !.Training.Action = a,
                                         !.Training.LenStep = l]
             IN  other' = {[op |-> "twin", val |-> TrainingInfo(twin)]}
    /\ UNCHANGED <<built, session, infos, texts, console>>

\* main is the process's entry point: it builds its three sessions, prints
\* their texts in order and returns, which ends the process.
main ==
    /\ infos = << >> /\ texts = << >> /\ other = {}
    /\ console = << >>
    /\ console' = <<ReadData(swimming), ReadData(walking), ReadData(running)>>
    /\ UNCHANGED <<built, session, infos, texts, other>>

Next ==
    \/ CallTrainingInfo
    \/ CallReadData
    \/ CallReadDataFirst
    \/ CallDistance
    \/ CallMeanSpeed
    \/ CallCalories
    \/ TwinTrainingInfo
    \/ main

Spec == Init /\ [][Next]_vars

InfoMsgs == {infos[i].msg : i \in 1..Len(infos)}
Texts == {texts[i].out : i \in 1..Len(texts)}
Results(op) == {o.val : o \in {x \in other : x.op = op}}

(***************************************************************************)
(* Properties.                                                             *)
(***************************************************************************)

\* C1: the calories of every summary built for a session, the InfoMessage
\* of TrainingInfo and the calories line of ReadData's text, are the value
\* of the session's own Calories method.
SummaryCaloriesAreOwnFormula ==
    /\ \A i \in InfoMsgs : FEq(i.Calories, Calories(session))
    /\ \A t \in Texts : t.Calories = Fixed(Calories(session), 2)

\* (18 x 6.5 + 1.79) x 85 / 1000 x 0.5 x 60
RunningScenarioCalories ==
    FMul(FMul(FDiv(FMul(FAdd(FMul(Dec(18, 1), Dec(65, 10)), Dec(179, 100)),
                        Dec(85, 1)),
                   Dec(1000, 1)),
              Dec(5, 10)),
         Dec(60, 1))

\* C2 as stated: the Running session of main has distance 3.25, mean speed
\* 6.5 and calories of about 52.36 in its summary.
RunningScenarioAsStated ==
    /\ console # << >> =>
          /\ console[3].Distance = Fixed(Dec(325, 100), 2)
          /\ console[3].Speed = Fixed(Dec(65, 10), 2)
          /\ console[3].Calories = Fixed(Dec(5236, 100), 2)
    /\ session = running =>
          \A t \in Texts : t.Calories = Fixed(Dec(5236, 100), 2)

\* C2 amended: the text ReadData returns for the Running session of main,
\* which main prints third, has distance 3.25, mean speed 6.50 and calories
\* (18 x 6.5 + 1.79) x 85 / 1000 x 0.5 x 60 = 302.9145, printed 302.91; the
\* session's distance, mean speed and Calories are these values.
RunningScenario ==
    LET printed == [TrainingType |-> "Beg",
                    Duration |-> Fixed(Dec(30, 1), 1),
                    Distance |-> Fixed(Dec(325, 100), 2),
                    Speed    |-> Fixed(Dec(65, 10), 2),
                    Calories |-> Fixed(Dec(30291, 100), 2)]
    IN  /\ FEq(RunningScenarioCalories, Dec(3029145, 10000))
        /\ console # << >> => console[3] = printed
        /\ session = running =>
              /\ \A t \in Texts : t = printed
              /\ \A i \in InfoMsgs : /\ FEq(i.Distance, Dec(325, 100))
                                     /\ FEq(i.Speed, Dec(65, 10))
              /\ \A c \in Results("Calories") : FEq(c, RunningScenarioCalories)

RunningScenarioReached ==
    /\ session = running
    /\ texts # << >>
    /\ infos # << >>
    /\ Results("Calories") # {}

\* C3: with a duration of zero the mean speed and the calories are 0 for
\* each of the three types, and every value is finite (no division by zero).
ZeroDurationYieldsZero ==
    session.Training.Duration = 0 =>
        /\ \A i \in InfoMsgs :
              IsZero(i.Speed) /\ IsZero(i.Calories) /\ IsFinite(i.Distance)
        /\ \A t \in Texts :
              /\ t.Speed = Fixed(Zero, 2)
              /\ t.Calories = Fixed(Zero, 2)
              /\ t.Distance.k = "fin"
        /\ \A v \in Results("meanSpeed") \cup Results("Calories") : IsZero(v)
        /\ \A v \in Results("distance") : IsFinite(v)

ZeroDurationReached ==
    /\ session.Training.Duration = 0
    /\ session.kind \in {"Running", "Walking"}
    /\ ~IsZero(distance(session))
    /\ ~IsZero(session.Training.Weight)
    /\ infos # << >>
    /\ texts # << >>
    /\ Results("Calories") # {}

\* C4: no call of TrainingInfo or ReadData on a session of one of the three
\* types invokes Training's Calories.
BaseCaloriesNeverInvoked ==
    /\ \A n \in 1..Len(infos) : "Training.Calories" \notin infos[n].calls
    /\ \A n \in 1..Len(texts) : "Training.Calories" \notin texts[n].calls

\* LengthPool x CountPool as a number
PoolProduct(c) ==
    Fin(IF c.LengthPool.m * c.CountPool.m < 0 THEN -1 ELSE 1,
        BMul(BFromInt(Abs(c.LengthPool.m * c.CountPool.m)),
             BPow2(c.LengthPool.e + c.CountPool.e)),
        <<1>>)

\* C5: two Swimming sessions of equal pool length, crossing count, duration
\* and weight that differ in repetition count or step length have the same
\* distance, mean speed and calories in their summaries, and the distance
\* is LengthPool x CountPool / 1000.
SwimmingIgnoresStrokes ==
    session.kind = "Swimming" =>
        \A i \in InfoMsgs :
            /\ FEq(i.Distance, FDiv(PoolProduct(session), MInKm))
            /\ \A w \in Results("twin") :
                  /\ FEq(i.Distance, w.Distance)
                  /\ FEq(i.Speed, w.Speed)
                  /\ FEq(i.Calories, w.Calories)

\* The part of C5 that holds of every session: the summaries of the two
\* sessions agree, on the distance float64(LengthPool * CountPool) / 1000
\* with the product taken in int arithmetic.
SwimmingTwinsAgree ==
    session.kind = "Swimming" =>
        \A i \in InfoMsgs :
            /\ FEq(i.Distance,
                   FDiv(IntToFloat(MulInt(session.LengthPool,
                                          session.CountPool)), MInKm))
            /\ \A w \in Results("twin") :
                  /\ FEq(i.Distance, w.Distance)
                  /\ FEq(i.Speed, w.Speed)
                  /\ FEq(i.Calories, w.Calories)

\* C6: a Walking session of height 0 has calories 0, and finite values.
ZeroHeightYieldsZero ==
    (session.kind = "Walking" /\ IsZero(session.Height)) =>
        /\ \A v \in Results("Calories") : IsZero(v)
        /\ \A t \in Texts : t.Calories = Fixed(Zero, 2)
        /\ \A i \in InfoMsgs : IsZero(i.Calories)

ZeroHeightReached ==
    /\ session.kind = "Walking"
    /\ IsZero(session.Height)
    /\ session.Training.Duration # 0
    /\ ~IsZero(distance(session))
    /\ ~IsZero(session.Training.Weight)
    /\ Results("Calories") # {}
    /\ texts # << >>

\* C7: the distance of every summary of a session with non-negative inputs
\* is non-negative.
DistanceNonNegative ==
    /\ \A i \in InfoMsgs : ~IsNegative(i.Distance)
    /\ \A t \in Texts : t.Distance.s = 1

SwimmingScenarioCalories ==
    FMul(FMul(FMul(FAdd(FDiv(Dec(2, 1), Dec(15, 10)), Dec(11, 10)), Dec(2, 1)),
              Dec(85, 1)),
         Dec(15, 10))

\* C9: the Swimming session of main has distance 2.0, mean speed 1.333...
\* and calories (1.333... + 1.1) x 2 x 85 x 1.5 = 620.5 in its summary, and
\* main prints them first, as 2.00, 1.33 and 620.50.
SwimmingScenario ==
    /\ FEq(SwimmingScenarioCalories, Dec(6205, 10))
    /\ console # << >> =>
          console[1] = [TrainingType |-> "Plavanie",
                        Duration |-> Fixed(Dec(90, 1), 1),
                        Distance |-> Fixed(Dec(2, 1), 2),
                        Speed    |-> Fixed(Dec(133, 100), 2),
                        Calories |-> Fixed(Dec(6205, 10), 2)]
    /\ session = swimming =>
          /\ \A i \in InfoMsgs :
                /\ FEq(i.Distance, Dec(2, 1))
                /\ FEq(i.Speed, FDiv(Dec(2, 1), Dec(15, 10)))
                /\ FEq(i.Calories, SwimmingScenarioCalories)
          /\ \A t \in Texts : t.Calories = Fixed(Dec(6205, 10), 2)

SwimmingScenarioReached ==
    /\ session = swimming
    /\ infos # << >>
    /\ texts # << >>

\* C10: the distance method called on a Swimming session returns
\* LengthPool x CountPool / 1000, the distance of the session's summary.
SwimmingDistanceOverridden ==
    session.kind = "Swimming" =>
        \A v \in Results("distance") :
            /\ FEq(v, FDiv(IntToFloat(MulInt(session.LengthPool,
                                             session.CountPool)), MInKm))
            /\ \A i \in InfoMsgs : FEq(v, i.Distance)

====
